---- MODULE Spec2Model ----
(***************************************************************************)
(* ChatScrollManager (react-app/src/ChatScrollManager.ts): the windowed    *)
(* pagination state machine of the chat view, together with the ordered    *)
(* query provider it talks to (a live result handle that updateSelection   *)
(* rebinds) and the rendering layer that feeds it scroll/layout events.    *)
(*                                                                         *)
(* JavaScript is single threaded: every handler runs to its first await,   *)
(* and the code after an await runs when the provider settles the promise. *)
(* Each action below is one such run.  A nullable field is a sequence of   *)
(* length 0 (null) or 1.  Messages are identified by their timestamp; the  *)
(* feed of a room is the set 1..feedN.                                     *)
(***************************************************************************)
EXTENDS Integers, Sequences, FiniteSets, TLC

\* ---------------------------------------------------------------- bounds
MaxCalls == 3          \* updateSelection calls issued while the view is open
MaxViewportHeight == 1500   \* viewport heights computeLimit is applied to
MaxText == 1            \* characters of a value typed into an EditableTextField
MaxEdits == 2           \* change events of an EditableTextField
MaxTimeouts == 3        \* setTimeout callbacks of a user handle not yet run
MaxRooms == 3           \* rooms of the live query of App
MaxCycles == 2          \* largest cfg.maxCycles of a harness run
MaxWaitTicks == 2       \* sleeps that fit into maxWait and into the timeout

\* Rooms of 0 and of 25 messages (exactly one page), each of which may
\* receive one more message while the view is open; a 600 px viewport over
\* 1600 px of content, scrolled to the top or to the bottom.
InitialFeedSizes == {0, 25}
FeedSizes == InitialFeedSizes \cup {n + 1 : n \in InitialFeedSizes}
ViewportHeights == {600}
ContentHeights == {1600}
ScrollOffsets == {0, 1000}
ListenerIds == {"L1"}

\* ------------------------------------------------------ program constants
minBufferRatioNum == 3         \* minBufferRatio = 0.75 = 3/4
minBufferRatioDen == 4
querySize == 3
estimatedRowHeight == 74
minPageSize == 20
autoScrollGap == 50
defaultViewportHeight == 600
defaultLimit == 50

\* ---------------------------------------------------------------- helpers
Min(a, b) == IF a < b THEN a ELSE b
Max(a, b) == IF a > b THEN a ELSE b
Reverse(s) == [i \in 1..Len(s) |-> s[Len(s) + 1 - i]]
RemoveAt(s, i) == [j \in 1..(Len(s) - 1) |-> IF j < i THEN s[j] ELSE s[j + 1]]

\* Math.max(20, Math.ceil(viewportHeight * 3.0 / 74))
\* computeLimit for one viewport of rows instead of querySize viewports.
computeLimitOneViewport(h) ==
    Max(minPageSize, (h + estimatedRowHeight - 1) \div estimatedRowHeight)

computeLimit(h) ==
    Max(minPageSize, (h * querySize + estimatedRowHeight - 1) \div estimatedRowHeight)

\* ------------------------------------------------------------- provider
\* A selection is [op, ts, order, limit]: "room = .. AND deleted = false
\* [AND timestamp op ts] ORDER BY timestamp order LIMIT limit".
LiveSelection(limit) == [op |-> "all", ts |-> 0, order |-> "DESC", limit |-> limit]
ContinuationSelection(direction, ts, limit) ==
    [op |-> IF direction = "backward" THEN "le" ELSE "ge",
     ts |-> ts,
     order |-> IF direction = "backward" THEN "DESC" ELSE "ASC",
     limit |-> limit]

\* messageQuery.resultset().items() of a handle bound to selection q over
\* the feed 1..n: the matching messages in the query's order, at most limit.
Items(q, n) ==
    LET lo == IF q.op = "ge" THEN q.ts ELSE 1
        hi == IF q.op = "le" THEN Min(q.ts, n) ELSE n
        k == Min(q.limit, Max(0, hi - lo + 1))
    IN IF q.order = "DESC" THEN [i \in 1..k |-> hi - i + 1]
                           ELSE [i \in 1..k |-> lo + i - 1]

VARIABLES
    \* ChatScrollManager fields
    _mode, _loading, _metrics, _messages, _displayMessages, _error,
    messageQuery, currentLimit, currentDirection, lastContinuationTimestamp,
    viewportHeight, contentHeight, scrollOffset, userScrolling, initialized,
    listeners, pollInterval, _snapshot,
    \* which of the array references _messages, _displayMessages and
    \* _snapshot.messages are the same array object
    sameArray,
    \* provider: feed size, the handle's selection, unresolved calls, number
    \* of updateSelection calls issued so far
    feedN, selection, inflight, calls,
    \* the component was unmounted (destroy() ran)
    destroyed,
    \* the rendering layer: a scrollToEnd() of the manager is due (its timer
    \* runs, or the list has not yet reported the scroll it causes)
    scrollToEndPending,
    \* history: what the last step did; the last loadMore call, if the window
    \* has not changed since
    ev, lastCall,
    \* the other components of the app, one record each: an EditableTextField
    \* with the field it edits, the closure of ensureUser(), App with its
    \* RoomList, the scrollTest global with a run() and a runScrollValidation()
    editableTextField, userReadHandle, app, scrollTest, scrollValidation

vars == <<_mode, _loading, _metrics, _messages, _displayMessages, _error,
          messageQuery, currentLimit, currentDirection, lastContinuationTimestamp,
          viewportHeight, contentHeight, scrollOffset, userScrolling, initialized,
          listeners, pollInterval, _snapshot, sameArray,
          feedN, selection, inflight, calls, destroyed,
          scrollToEndPending, ev, lastCall,
          editableTextField, userReadHandle, app, scrollTest, scrollValidation>>

\* The variables of ChatScrollManager, its provider and its list.
managerVars == <<_mode, _loading, _metrics, _messages, _displayMessages, _error,
                 messageQuery, currentLimit, currentDirection,
                 lastContinuationTimestamp, viewportHeight, contentHeight,
                 scrollOffset, userScrolling, initialized, listeners,
                 pollInterval, _snapshot, sameArray, feedN, selection, inflight,
                 calls, destroyed, scrollToEndPending, ev, lastCall>>

\* The manager and the provider as one record, so that a handler is a function
\* from records to records.  The last six fields are the history of the step
\* being taken: how often notify() ran, how many snapshot objects it made,
\* whether the array held by the snapshot the step started with is still
\* _displayMessages (resp. _messages, resp. the array of the snapshot now),
\* and the loadMore call made, if any.
Cur ==
    [mode |-> _mode, loading |-> _loading, metrics |-> _metrics,
     messages |-> _messages, displayMessages |-> _displayMessages, error |-> _error,
     messageQuery |-> messageQuery, currentLimit |-> currentLimit,
     currentDirection |-> currentDirection,
     lastContinuationTimestamp |-> lastContinuationTimestamp,
     viewportHeight |-> viewportHeight, contentHeight |-> contentHeight,
     scrollOffset |-> scrollOffset, userScrolling |-> userScrolling,
     initialized |-> initialized, listeners |-> listeners,
     pollInterval |-> pollInterval, snapshot |-> _snapshot, sameArray |-> sameArray,
     feedN |-> feedN, selection |-> selection, inflight |-> inflight,
     scrollToEndPending |-> scrollToEndPending, flatListRef |-> ~destroyed,
     notified |-> 0, created |-> 0,
     keptDisplay |-> sameArray.snapDisp, keptMessages |-> sameArray.snapMsgs,
     keptSnapshot |-> TRUE, called |-> <<>>]

\* ------------------------------------------------------------- getters
\* atEarliest that also counts a page of exactly currentLimit items.
atEarliestFullPage(s) ==
    s.currentDirection = "DESC" /\ Len(s.messages) <= s.currentLimit

atEarliest(s) ==
    s.currentDirection = "DESC" /\ Len(s.messages) < s.currentLimit

\* atLatest without the test of the query direction: any short page counts.
atLatestAnyDirection(s) ==
    \/ s.mode = "live"
    \/ Len(s.messages) < s.currentLimit

atLatest(s) ==
    \/ s.mode = "live"
    \/ (s.currentDirection = "ASC" /\ Len(s.messages) < s.currentLimit)

\* shouldAutoScroll taking only a gap between 0 and autoScrollGap for "at the
\* bottom".
shouldAutoScrollNonNegative(s) ==
    s.mode = "live" /\ s.metrics.bottomGap >= 0 /\ s.metrics.bottomGap < autoScrollGap

shouldAutoScroll(s) ==
    s.mode = "live" /\ s.metrics.bottomGap < autoScrollGap

\* ------------------------------------------------- array assignments
\* this._displayMessages = [...x].reverse(): a new array object
AssignDisplayFresh(s, items) ==
    [s EXCEPT !.displayMessages = items,
              !.sameArray = [@ EXCEPT !.dispMsgs = FALSE, !.snapDisp = FALSE],
              !.keptDisplay = FALSE]

\* this._displayMessages = this._messages: the same array object
AssignDisplayAlias(s) ==
    [s EXCEPT !.displayMessages = s.messages,
              !.sameArray = [@ EXCEPT !.dispMsgs = TRUE, !.snapDisp = s.sameArray.snapMsgs],
              !.keptDisplay = s.keptMessages]

\* this._messages = items: the array the provider returned
AssignMessages(s, items) ==
    [s EXCEPT !.messages = items,
              !.sameArray = [@ EXCEPT !.dispMsgs = FALSE, !.snapMsgs = FALSE],
              !.keptMessages = FALSE]

\* this._mode !== 'forward' ? [...this._messages].reverse() : this._messages
CacheDisplay(s) ==
    IF s.mode # "forward" THEN AssignDisplayFresh(s, Reverse(s.messages))
                          ELSE AssignDisplayAlias(s)

\* ------------------------------------------------------------ snapshot
\* updateSnapshot without the comparison: every call makes a new object.
updateSnapshotAlways(s) ==
    [s EXCEPT !.snapshot = <<[messages |-> s.displayMessages, mode |-> s.mode,
                              loading |-> s.loading,
                              shouldAutoScroll |-> shouldAutoScroll(s)]>>,
              !.sameArray = [@ EXCEPT !.snapDisp = TRUE,
                                      !.snapMsgs = s.sameArray.dispMsgs],
              !.created = @ + 1,
              !.keptSnapshot = s.keptDisplay]

updateSnapshot(s) ==
    LET sas == shouldAutoScroll(s)
        stale == \/ s.snapshot = <<>>
                 \/ s.snapshot[1].mode # s.mode
                 \/ s.snapshot[1].loading # s.loading
                 \/ s.snapshot[1].shouldAutoScroll # sas
                 \/ ~s.sameArray.snapDisp
    IN IF stale
       THEN [s EXCEPT !.snapshot = <<[messages |-> s.displayMessages, mode |-> s.mode,
                                      loading |-> s.loading, shouldAutoScroll |-> sas]>>,
                      !.sameArray = [@ EXCEPT !.snapDisp = TRUE,
                                              !.snapMsgs = s.sameArray.dispMsgs],
                      !.created = @ + 1,
                      !.keptSnapshot = s.keptDisplay]
       ELSE s

notify(s) ==
    [updateSnapshot(s) EXCEPT !.notified = @ + 1]

\* ---------------------------------------------------------- scrollToEnd
\* flatListRef.scrollToEnd({animated: true}), at once or from a timer: the
\* list will report the scroll it causes.
scrollToEnd(s) ==
    IF s.flatListRef THEN [s EXCEPT !.scrollToEndPending = TRUE] ELSE s

\* ------------------------------------------------------ refreshMessages
\* refreshMessages without the comparison of the id sequences.
refreshMessagesAlways(s) ==
    IF ~s.messageQuery THEN s
    ELSE LET items == Items(s.selection, s.feedN)
             a == AssignMessages(s, items)
             b == [a EXCEPT !.metrics.resultCount = Len(items)]
         IN notify(CacheDisplay(b))

refreshMessages(s) ==
    IF ~s.messageQuery THEN s
    ELSE LET items == Items(s.selection, s.feedN)
             changed == items # s.messages
         IN IF changed
            THEN LET a == AssignMessages(s, items)
                     b == [a EXCEPT !.metrics.resultCount = Len(items)]
                 IN notify(CacheDisplay(b))
            ELSE s

\* ------------------------------------------------------------ loadMore
Call(kind, query, dir, origin, pre) ==
    [kind |-> kind, query |-> query, dir |-> dir, origin |-> origin, pre |-> pre]

\* The window getSnapshot() would return (it fills a null snapshot first).
Exposed(s) ==
    IF s.snapshot = <<>> THEN s.displayMessages ELSE s.snapshot[1].messages

\* The list renders the rows of the snapshot's messages in order, from the
\* top of the content, each estimatedRowHeight high; nothing but a scroll
\* moves the content (the list is given no maintainVisibleContentPosition).
Rendered(snapshot) ==
    IF snapshot = <<>> THEN <<>> ELSE snapshot[1].messages

RowOf(window, m) ==
    CHOOSE i \in 1..Len(window) : window[i] = m

ScreenY(window, m, offset) ==
    (RowOf(window, m) - 1) * estimatedRowHeight - offset

\* The rows that lie inside the viewport.
Visible(window, offset, height) ==
    {window[i] : i \in {j \in 1..Len(window) :
                          /\ (j - 1) * estimatedRowHeight - offset >= 0
                          /\ j * estimatedRowHeight - offset <= height}}

\* loadMore without the comparison with lastContinuationTimestamp.
loadMoreNoDedup(s, direction) ==
    IF ~s.messageQuery \/ Len(s.messages) = 0 \/ Len(s.displayMessages) = 0 THEN s
    ELSE LET messageList == s.displayMessages
             anchorTimestamp == IF direction = "backward"
                                THEN messageList[1]
                                ELSE messageList[Len(messageList)]
             c == [s EXCEPT !.called = <<[dir |-> direction, ts |-> anchorTimestamp]>>]
             a == [c EXCEPT !.loading = direction,
                            !.mode = direction,
                            !.lastContinuationTimestamp = <<anchorTimestamp>>]
             b == notify(CacheDisplay(a))
             limit == computeLimit(b.viewportHeight)
         IN [b EXCEPT !.inflight = Append(@,
                Call("loadMore",
                     ContinuationSelection(direction, anchorTimestamp, limit),
                     direction, "scroll",
                     <<[window |-> Exposed(s), messages |-> s.messages,
                        visible |-> Visible(Exposed(s), s.scrollOffset,
                                            s.viewportHeight)]>>))]

\* loadMore up to its await: the guards, the mode switch and the issue of the
\* continuation query.
loadMore(s, direction) ==
    IF ~s.messageQuery \/ Len(s.messages) = 0 \/ Len(s.displayMessages) = 0 THEN s
    ELSE LET messageList == s.displayMessages
             anchorTimestamp == IF direction = "backward"
                                THEN messageList[1]
                                ELSE messageList[Len(messageList)]
             c == [s EXCEPT !.called = <<[dir |-> direction, ts |-> anchorTimestamp]>>]
         IN IF c.lastContinuationTimestamp = <<anchorTimestamp>> THEN c
            ELSE LET a == [c EXCEPT !.loading = direction,
                                    !.mode = direction,
                                    !.lastContinuationTimestamp = <<anchorTimestamp>>]
                     b == notify(CacheDisplay(a))
                     limit == computeLimit(b.viewportHeight)
                 IN [b EXCEPT !.inflight = Append(@,
                        Call("loadMore",
                             ContinuationSelection(direction, anchorTimestamp, limit),
                             direction, "scroll",
                             <<[window |-> Exposed(s), messages |-> s.messages,
                        visible |-> Visible(Exposed(s), s.scrollOffset,
                                            s.viewportHeight)]>>))]

\* setLiveMode up to its await.
setLiveMode(s, origin) ==
    LET a == [s EXCEPT !.mode = "live",
                       !.lastContinuationTimestamp = <<>>,
                       !.loading = "false"]
        b == AssignDisplayFresh(a, Reverse(a.messages))
    IN IF b.messageQuery
       THEN LET limit == computeLimit(b.viewportHeight)
            IN [b EXCEPT !.currentLimit = limit,
                         !.currentDirection = "DESC",
                         !.inflight = Append(@,
                            Call("setLiveMode", LiveSelection(limit), "none", origin, <<>>))]
       ELSE notify(b)

\* finally { this._loading = false; this.notify(); }
loadMoreFinally(s) ==
    notify([s EXCEPT !.loading = "false"])

\* loadMore after its await resolved.
loadMoreResolved(s, call) ==
    LET a == [s EXCEPT !.selection = call.query,
                       !.currentLimit = call.query.limit,
                       !.currentDirection = call.query.order]
        b == refreshMessages(a)
    IN IF atLatest(b) THEN setLiveMode(b, "loadMore") ELSE loadMoreFinally(b)

\* setLiveMode after its await resolved, and then its caller.
setLiveModeResolved(s, call) ==
    LET a == notify(refreshMessages([s EXCEPT !.selection = call.query]))
    IN IF call.origin = "loadMore" THEN loadMoreFinally(a) ELSE scrollToEnd(a)

\* setLiveMode after its await rejected: loadMore catches, jumpToLive does not.
setLiveModeRejected(s, call) ==
    IF call.origin = "loadMore" THEN loadMoreFinally(s) ELSE s

\* ------------------------------------------- layout and content size
onLayout(s, height) ==
    LET a == [s EXCEPT !.viewportHeight = height]
    IN IF ~a.initialized
       THEN LET b == [a EXCEPT !.initialized = TRUE]
            IN IF b.mode = "live" THEN scrollToEnd(b) ELSE b
       ELSE a

onContentSizeChange(s, height) ==
    LET wasAtBottom == shouldAutoScroll(s)
        a == [s EXCEPT !.contentHeight = height]
    IN IF wasAtBottom /\ a.mode = "live" THEN scrollToEnd(a) ELSE a

onMessageSent(s) ==
    LET a == refreshMessages(s)
    IN IF a.mode = "live" THEN scrollToEnd(a) ELSE a

\* ------------------------------------------------------------ onScroll
onScroll(s, e) ==
    LET scrollDelta == e.y - s.scrollOffset
        topGap == e.y
        bottomGap == e.contentHeight - e.y - e.layoutHeight
        minBuffer == (e.layoutHeight * minBufferRatioNum) \div minBufferRatioDen
        a == [s EXCEPT !.scrollOffset = e.y,
                       !.contentHeight = e.contentHeight,
                       !.viewportHeight = e.layoutHeight,
                       !.metrics = [topGap |-> topGap, bottomGap |-> bottomGap,
                                    minBuffer |-> minBuffer,
                                    resultCount |-> Len(s.messages)]]
        b == IF a.userScrolling
             THEN LET u == [a EXCEPT !.userScrolling = FALSE]
                  IN IF /\ scrollDelta < 0 /\ topGap < minBuffer
                        /\ ~atEarliest(u) /\ u.loading # "backward"
                     THEN loadMore(u, "backward")
                     ELSE IF /\ scrollDelta > 0 /\ bottomGap < minBuffer
                             /\ ~atLatest(u) /\ u.loading # "forward"
                          THEN loadMore(u, "forward")
                          ELSE u
             ELSE a
    IN notify(b)

\* ------------------------------------------------------------- history
\* What the step just taken did: its handler ("other" for those no property
\* names), for a settled loadMore its direction, the number of items fetched
\* and the limit asked for, whether the mode went from paging to live, how
\* often notify() ran, how many snapshot objects were made, whether the
\* snapshot holds the array the previous snapshot held, and whether the step
\* repeated the previous loadMore call, and for a scroll event whether it was
\* the first one after a drag began.
Event(kind, s) ==
    [kind |-> kind, dir |-> "none", fetched |-> 0, limit |-> 0,
     enteredLive |-> (_mode # "live" /\ s.mode = "live"),
     notified |-> s.notified, created |-> s.created,
     sameMessages |-> (s.created = 0 \/ s.keptSnapshot),
     repeated |-> FALSE, drag |-> FALSE]

Commit(s, e) ==
    /\ _mode' = s.mode
    /\ _loading' = s.loading
    /\ _metrics' = s.metrics
    /\ _messages' = s.messages
    /\ _displayMessages' = s.displayMessages
    /\ _error' = s.error
    /\ messageQuery' = s.messageQuery
    /\ currentLimit' = s.currentLimit
    /\ currentDirection' = s.currentDirection
    /\ lastContinuationTimestamp' = s.lastContinuationTimestamp
    /\ viewportHeight' = s.viewportHeight
    /\ contentHeight' = s.contentHeight
    /\ scrollOffset' = s.scrollOffset
    /\ userScrolling' = s.userScrolling
    /\ initialized' = s.initialized
    /\ listeners' = s.listeners
    /\ pollInterval' = s.pollInterval
    /\ _snapshot' = s.snapshot
    /\ sameArray' = s.sameArray
    /\ feedN' = s.feedN
    /\ selection' = s.selection
    /\ inflight' = s.inflight
    /\ scrollToEndPending' = s.scrollToEndPending
    /\ calls' = calls + (IF Len(s.inflight) > Len(inflight) THEN 1 ELSE 0)
    /\ calls' <= MaxCalls
    /\ UNCHANGED <<editableTextField, userReadHandle, app, scrollTest, scrollValidation>>
    /\ ev' = e
    /\ lastCall' = IF s.called # <<>> THEN s.called
                   ELSE IF \/ e.kind = "jumpToLive"
                           \/ s.displayMessages # _displayMessages
                        THEN <<>> ELSE lastCall

\* ---------------------------------------------------------------- Init
\* EditableTextField after its first render over a field holding value:
\* the useState and useRef initial values, the value read from the view,
\* and the promise chain of commitQueueRef, of which jobs are the callbacks
\* (job 0 is the resolved promise the ref starts with).
EditableTextFieldMounted(value) ==
    [isEditing |-> FALSE, localValue |-> <<>>, lastValueRef |-> <<>>,
     currentValue |-> value, stored |-> value,
     commitQueueRef |-> 0, jobs |-> <<>>,
     typed |-> <<>>, failed |-> FALSE, remote |-> FALSE]

\* ensureUser() up to its return: user null, no listeners, initUser()
\* awaiting; timeouts are the setTimeout callbacks not yet run, each with
\* the listener it calls; invoked and unsubscribed are history.
ensureUser ==
    [user |-> FALSE, initUser |-> "pending", listeners |-> {},
     timeouts |-> <<>>, invoked |-> {}, unsubscribed |-> {}]

\* App after its first render: the useState initial values; roomList is the
\* mounted RoomList instance, if any; items is the number of rooms of the
\* live query; screen is what the last render put into mainContent.
AppMounted ==
    [nodeReady |-> FALSE, currentUser |-> FALSE, rooms |-> FALSE,
     initialized |-> FALSE, showTestPanel |-> FALSE,
     selectedRoom |-> 0, roomList |-> <<>>, items |-> 0,
     screen |-> "connecting", dirty |-> FALSE,
     last |-> "none", autoSelected |-> FALSE]

\* scrollTest.chatState = null; the fields stand for what a render of Chat
\* hands to the hook.
noChatState ==
    [set |-> FALSE, visibleSet |-> "null", flatListRef |-> FALSE,
     initialOk |-> FALSE, hasMorePreceding |-> FALSE, first |-> FALSE]

\* The global scrollTest as the module defines it; lastCall and returned
\* record what the calls of run() answered.
scrollTestLoaded ==
    [isRunning |-> FALSE, lastResult |-> "null", chatState |-> noChatState,
     currentUserId |-> FALSE, navigationCallback |-> FALSE,
     pc |-> "idle", maxCycles |-> 0, cycleCount |-> 0, elapsed |-> 0,
     iterations |-> 0, returned |-> "none", lastCall |-> "none"]

\* No runScrollValidation() started.
scrollValidationIdle ==
    [pc |-> "idle", maxCycles |-> 0, cycleCount |-> 0, currentOffset |-> 0,
     scrollCyclesDown |-> 0, scrollCyclesUp |-> 0, elapsed |-> 0,
     isLoading |-> FALSE, beforeVisible |-> 0, reachedBottom |-> FALSE,
     iterations |-> 0, result |-> "none"]

\* The state after the constructor ran: initQuery() has computed the limit
\* and awaits messageOps.query().
Constructed ==
    /\ _mode = "live"
    /\ _loading = "false"
    /\ _metrics = [topGap |-> 0, bottomGap |-> 0, minBuffer |-> 0, resultCount |-> 0]
    /\ _messages = <<>>
    /\ _displayMessages = <<>>
    /\ _error = <<>>
    /\ messageQuery = FALSE
    /\ currentLimit = computeLimit(defaultViewportHeight)
    /\ currentDirection = "DESC"
    /\ lastContinuationTimestamp = <<>>
    /\ viewportHeight = defaultViewportHeight
    /\ contentHeight = 0
    /\ scrollOffset = 0
    /\ userScrolling = FALSE
    /\ initialized = FALSE
    /\ listeners = {}
    /\ pollInterval = FALSE
    /\ _snapshot = <<>>
    /\ sameArray = [dispMsgs |-> FALSE, snapDisp |-> FALSE, snapMsgs |-> FALSE]
    /\ calls = 0
    /\ selection = LiveSelection(computeLimit(defaultViewportHeight))
    /\ inflight = <<Call("query", LiveSelection(computeLimit(defaultViewportHeight)),
                         "none", "constructor", <<>>)>>
    /\ destroyed = FALSE
    /\ ev = [kind |-> "other", dir |-> "none", fetched |-> 0, limit |-> 0,
             enteredLive |-> FALSE,
             notified |-> 0, created |-> 0, sameMessages |-> TRUE,
             repeated |-> FALSE, drag |-> FALSE]
    /\ lastCall = <<>>
    /\ scrollToEndPending = FALSE

\* The other components as their first render leaves them.
Mounted ==
    /\ editableTextField = EditableTextFieldMounted(<<>>)
    /\ userReadHandle = ensureUser
    /\ app = AppMounted
    /\ scrollTest = scrollTestLoaded
    /\ scrollValidation = scrollValidationIdle

Init ==
    /\ Constructed
    /\ feedN \in InitialFeedSizes
    /\ Mounted

\* ------------------------------------------------- provider settles a call
Taken(i) == [Cur EXCEPT !.inflight = RemoveAt(inflight, i)]

\* initQuery after messageOps.query() resolved
QueryResolved(i) ==
    /\ inflight[i].kind = "query"
    /\ LET a == [Taken(i) EXCEPT !.messageQuery = TRUE, !.selection = inflight[i].query]
           b == [refreshMessages(a) EXCEPT !.pollInterval = TRUE]
       IN Commit(b, Event("queryResolved", b))
    /\ UNCHANGED destroyed

\* initQuery after messageOps.query() rejected
QueryRejected(i) ==
    /\ inflight[i].kind = "query"
    /\ LET b == notify([Taken(i) EXCEPT !.error = <<"error">>])
       IN Commit(b, Event("other", b))
    /\ UNCHANGED destroyed

LoadMoreResolved(i) ==
    /\ inflight[i].kind = "loadMore"
    /\ LET call == inflight[i]
           b == loadMoreResolved(Taken(i), call)
       IN Commit(b, [Event("loadMoreResolved", b) EXCEPT
                        !.dir = call.dir,
                        !.fetched = Len(Items(call.query, feedN)),
                        !.limit = call.query.limit])
    /\ UNCHANGED destroyed

\* catch (e) { console.error(..) } finally { .. }
LoadMoreRejected(i) ==
    /\ inflight[i].kind = "loadMore"
    /\ LET b == loadMoreFinally(Taken(i))
       IN Commit(b, [Event("loadMoreRejected", b) EXCEPT !.dir = inflight[i].dir])
    /\ UNCHANGED destroyed

SetLiveModeResolved(i) ==
    /\ inflight[i].kind = "setLiveMode"
    /\ LET b == setLiveModeResolved(Taken(i), inflight[i])
       IN Commit(b, Event(IF inflight[i].origin = "jumpToLive"
                          THEN "jumpToLiveResolved" ELSE "other", b))
    /\ UNCHANGED destroyed

SetLiveModeRejected(i) ==
    /\ inflight[i].kind = "setLiveMode"
    /\ LET b == setLiveModeRejected(Taken(i), inflight[i])
       IN Commit(b, Event("other", b))
    /\ UNCHANGED destroyed

\* a message is added to the room (by this or another client)
Arrive ==
    /\ feedN + 1 \in FeedSizes
    /\ LET b == [Cur EXCEPT !.feedN = feedN + 1]
       IN Commit(b, Event("other", b))
    /\ UNCHANGED destroyed

\* the setInterval callback of startPolling
Poll ==
    /\ pollInterval
    /\ LET b == refreshMessages(Cur)
       IN Commit(b, Event("refresh", b))
    /\ UNCHANGED destroyed

\* ------------------------------------------------- the rendering layer
\* The content of a list without rows (its ListEmptyComponent) does not
\* exceed the viewport: the list reports height 0 and cannot be scrolled.
ContentHeightsOf(window) ==
    IF Len(window) = 0 THEN {0} ELSE ContentHeights

ScrollEvents ==
    {e \in [y : ScrollOffsets, contentHeight : ContentHeightsOf(Exposed(Cur)),
            layoutHeight : ViewportHeights] :
        e.y = 0 \/ e.y + e.layoutHeight <= e.contentHeight}

\* A list scrolls only once it is laid out.
OnScroll(e) ==
    /\ ~destroyed
    /\ initialized
    /\ LET b == onScroll(Cur, e)
       IN Commit(b, [Event("onScroll", b) EXCEPT
                        !.repeated = (b.called # <<>> /\ b.called = lastCall),
                        !.drag = userScrolling])
    /\ UNCHANGED destroyed

OnScrollBeginDrag ==
    /\ ~destroyed
    /\ initialized
    /\ LET b == [Cur EXCEPT !.userScrolling = TRUE]
       IN Commit(b, Event("other", b))
    /\ UNCHANGED destroyed

\* The list reports the scroll a scrollToEnd() of the manager caused: the
\* offset is the end of the content.  No event if the list is there already.
EndOffset == Max(0, contentHeight - viewportHeight)

ScrollToEndEvent ==
    /\ ~destroyed
    /\ initialized
    /\ scrollToEndPending
    /\ LET a == [Cur EXCEPT !.scrollToEndPending = FALSE]
           b == IF EndOffset # scrollOffset
                THEN onScroll(a, [y |-> EndOffset, contentHeight |-> contentHeight,
                                  layoutHeight |-> viewportHeight])
                ELSE a
       IN Commit(b, Event("scrollToEnd", b))
    /\ UNCHANGED destroyed

\* onLayout: the scrollToEnd timer it may start changes no field.  The view
\* subscribes when it is committed, before the native side reports its layout.
OnLayout(height) ==
    /\ ~destroyed
    /\ listeners # {}
    /\ LET b == onLayout(Cur, height)
       IN Commit(b, Event("other", b))
    /\ UNCHANGED destroyed

OnContentSizeChange(height) ==
    /\ ~destroyed
    /\ height \in ContentHeightsOf(Exposed(Cur))
    /\ LET b == onContentSizeChange(Cur, height)
       IN Commit(b, Event("other", b))
    /\ UNCHANGED destroyed

\* The "Jump to Current" button is rendered from the snapshot:
\* managerState && !managerState.shouldAutoScroll && managerState.mode !== 'live'
JumpToLive ==
    /\ ~destroyed
    /\ _snapshot # <<>>
    /\ ~_snapshot[1].shouldAutoScroll
    /\ _snapshot[1].mode # "live"
    /\ LET b == setLiveMode(Cur, "jumpToLive")
       IN Commit(b, Event("jumpToLive", b))
    /\ UNCHANGED destroyed

OnMessageSent ==
    /\ ~destroyed
    /\ LET b == onMessageSent(Cur)
       IN Commit(b, Event("other", b))
    /\ UNCHANGED destroyed

GetSnapshot ==
    /\ ~destroyed
    /\ LET b == IF _snapshot = <<>> THEN updateSnapshot(Cur) ELSE Cur
       IN Commit(b, Event("other", b))
    /\ UNCHANGED destroyed

Subscribe(l) ==
    /\ ~destroyed
    /\ l \notin listeners
    /\ LET b == [Cur EXCEPT !.listeners = @ \cup {l}]
       IN Commit(b, Event("other", b))
    /\ UNCHANGED destroyed

\* The component unmounts: useSyncExternalStore unsubscribes its listener and
\* the cleanup effect calls destroy().
Destroy ==
    /\ ~destroyed
    /\ LET b == [Cur EXCEPT !.pollInterval = FALSE, !.listeners = {}]
       IN Commit(b, Event("other", b))
    /\ destroyed' = TRUE

Next ==
    \/ \E i \in 1..Len(inflight) : QueryResolved(i)
    \/ \E i \in 1..Len(inflight) : QueryRejected(i)
    \/ \E i \in 1..Len(inflight) : LoadMoreResolved(i)
    \/ \E i \in 1..Len(inflight) : LoadMoreRejected(i)
    \/ \E i \in 1..Len(inflight) : SetLiveModeResolved(i)
    \/ \E i \in 1..Len(inflight) : SetLiveModeRejected(i)
    \/ Arrive
    \/ Poll
    \/ \E e \in ScrollEvents : OnScroll(e)
    \/ OnScrollBeginDrag
    \/ ScrollToEndEvent
    \/ \E h \in ViewportHeights : OnLayout(h)
    \/ \E h \in ContentHeights \cup {0} : OnContentSizeChange(h)
    \/ JumpToLive
    \/ OnMessageSent
    \/ GetSnapshot
    \/ \E l \in ListenerIds : Subscribe(l)
    \/ Destroy

Spec == Init /\ [][Next]_vars

\* ------------------------------------------------ computeLimit alone
\* The manager with its fields initialised, for a viewport of any height up
\* to MaxViewportHeight, before initQuery() has computed the page size.
LimitInit ==
    /\ _mode = "live"
    /\ _loading = "false"
    /\ _metrics = [topGap |-> 0, bottomGap |-> 0, minBuffer |-> 0, resultCount |-> 0]
    /\ _messages = <<>>
    /\ _displayMessages = <<>>
    /\ _error = <<>>
    /\ messageQuery = FALSE
    /\ viewportHeight \in 0..MaxViewportHeight
    /\ currentLimit = defaultLimit
    /\ currentDirection = "DESC"
    /\ lastContinuationTimestamp = <<>>
    /\ contentHeight = 0
    /\ scrollOffset = 0
    /\ userScrolling = FALSE
    /\ initialized = FALSE
    /\ listeners = {}
    /\ pollInterval = FALSE
    /\ _snapshot = <<>>
    /\ sameArray = [dispMsgs |-> FALSE, snapDisp |-> FALSE, snapMsgs |-> FALSE]
    /\ feedN = 0
    /\ Mounted
    /\ selection = LiveSelection(defaultLimit)
    /\ inflight = <<>>
    /\ calls = 0
    /\ destroyed = FALSE
    /\ scrollToEndPending = FALSE
    /\ ev = [kind |-> "other", dir |-> "none", fetched |-> 0, limit |-> 0,
             enteredLive |-> FALSE,
             notified |-> 0, created |-> 0, sameMessages |-> TRUE,
             repeated |-> FALSE, drag |-> FALSE]
    /\ lastCall = <<>>

\* initQuery up to its await: this.currentLimit = this.computeLimit() and the
\* query with that LIMIT
InitQueryLimit ==
    /\ inflight = <<>>
    /\ currentLimit' = computeLimit(viewportHeight)
    /\ inflight' = <<Call("query", LiveSelection(currentLimit'), "none", "constructor", <<>>)>>
    /\ UNCHANGED <<_mode, _loading, _metrics, _messages, _displayMessages, _error,
                   messageQuery, currentDirection, lastContinuationTimestamp,
                   viewportHeight, contentHeight, scrollOffset, userScrolling,
                   initialized, listeners, pollInterval, _snapshot, sameArray,
                   feedN, selection, calls, destroyed, scrollToEndPending,
                   ev, lastCall,
                   editableTextField, userReadHandle, app, scrollTest,
                   scrollValidation>>

LimitNext == InitQueryLimit

SpecLimit == LimitInit /\ [][LimitNext]_vars

\* ------------------------------------ scrolling up through the history
\* The manager over a feed that does not fit one page, with a user who only
\* scrolls up (and lets the list settle in the middle of the content in
\* between) and a provider that answers every query it is sent.
TopFeedSizes == {25, 50}
TopScrollOffsets == {0, 500}

TopInit ==
    /\ Constructed
    /\ feedN \in TopFeedSizes
    /\ Mounted

TopScrollEvents ==
    {e \in [y : TopScrollOffsets, contentHeight : ContentHeightsOf(Exposed(Cur)),
            layoutHeight : ViewportHeights] :
        /\ e.y # scrollOffset
        /\ e.y = 0 \/ e.y + e.layoutHeight <= e.contentHeight}

\* The provider answers a call of the manager: the call leaves inflight.
Answered ==
    \E i \in 1..Len(inflight) : inflight' = RemoveAt(inflight, i)

TopNext ==
    \/ \E i \in 1..Len(inflight) : QueryResolved(i)
    \/ \E i \in 1..Len(inflight) : LoadMoreResolved(i)
    \/ Arrive
    \/ Poll
    \/ \E e \in TopScrollEvents : OnScroll(e)
    \/ OnScrollBeginDrag
    \/ ScrollToEndEvent
    \/ \E h \in ViewportHeights : OnLayout(h)
    \/ \E h \in ContentHeights \cup {0} : OnContentSizeChange(h)
    \/ GetSnapshot
    \/ \E l \in ListenerIds : Subscribe(l)

SpecTop == TopInit /\ [][TopNext]_vars /\ WF_inflight(Answered)

\* ---------------------------------------------------- EditableTextField
\* Text values are strings over Chars of at most MaxText characters; the
\* component queues at most MaxEdits change events.
Chars == {"a", "b"}
Texts == UNION {[1..n -> Chars] : n \in 0..MaxText}

otherThanTextField == <<managerVars, userReadHandle, app, scrollTest, scrollValidation>>

\* The index at which applyChanges finds the strings to differ.
FirstDifference(oldValue, newValue) ==
    LET minLen == Min(Len(oldValue), Len(newValue))
        same == {k \in 0..minLen : \A j \in 1..k : oldValue[j] = newValue[j]}
    IN CHOOSE k \in same : \A k2 \in same : k2 <= k

\* yrsString.delete_(i, n) and yrsString.insert(i, s) on a string; an index
\* beyond the string makes the binding throw, shown as <<>>.
delete_(text, i, n) ==
    IF i + n > Len(text) THEN <<>>
    ELSE <<SubSeq(text, 1, i) \o SubSeq(text, i + n + 1, Len(text))>>

insert(text, i, s) ==
    IF i > Len(text) THEN <<>>
    ELSE <<SubSeq(text, 1, i) \o s \o SubSeq(text, i + 1, Len(text))>>

\* The body of the queued callback up to trx.commit(): the field's string
\* in the transaction after the delete and the insert, <<>> if one threw.
Edited(text, oldValue, newValue) ==
    LET i == FirstDifference(oldValue, newValue)
        deleteCount == Len(oldValue) - i
        insertText == SubSeq(newValue, i + 1, Len(newValue))
        deleted == IF deleteCount > 0 THEN delete_(text, i, deleteCount) ELSE <<text>>
    IN IF deleted = <<>> THEN <<>>
       ELSE IF insertText # <<>> THEN insert(deleted[1], i, insertText)
            ELSE deleted

\* commitQueueRef.current = commitQueueRef.current.then(callback): the new
\* callback waits for the promise the ref held.
applyChanges(f, oldValue, newValue) ==
    [f EXCEPT !.jobs = Append(@, [oldValue |-> oldValue, newValue |-> newValue,
                                  after |-> f.commitQueueRef, state |-> "queued",
                                  text |-> <<>>]),
              !.commitQueueRef = Len(f.jobs) + 1]

\* The promise of callback k (0: the promise the ref starts with) is settled.
PromiseSettled(f, k) ==
    IF k = 0 THEN TRUE ELSE f.jobs[k].state = "settled"

\* The component re-renders and reads the field again.
Rerender ==
    /\ editableTextField.currentValue # editableTextField.stored
    /\ editableTextField' = [editableTextField EXCEPT !.currentValue = editableTextField.stored]
    /\ UNCHANGED otherThanTextField

StartEdit ==
    /\ ~editableTextField.isEditing
    /\ editableTextField' = [editableTextField EXCEPT
            !.localValue = editableTextField.currentValue,
            !.lastValueRef = editableTextField.currentValue,
            !.isEditing = TRUE]
    /\ UNCHANGED otherThanTextField

HandleChange(newValue) ==
    /\ editableTextField.isEditing
    /\ newValue # editableTextField.localValue
    /\ Len(editableTextField.jobs) < MaxEdits
    /\ LET f == applyChanges(editableTextField, editableTextField.lastValueRef, newValue)
       IN editableTextField' = [f EXCEPT !.localValue = newValue,
                                         !.lastValueRef = newValue,
                                         !.typed = <<newValue>>]
    /\ UNCHANGED otherThanTextField

EndEdit ==
    /\ editableTextField.isEditing
    /\ editableTextField' = [editableTextField EXCEPT
            !.isEditing = FALSE, !.localValue = <<>>, !.lastValueRef = <<>>]
    /\ UNCHANGED otherThanTextField

\* A queued callback runs once the promise it was chained to is settled: it
\* begins a transaction, edits the field's string in it and awaits commit();
\* an exception ends it in its catch.
BeginTransaction(j) ==
    /\ editableTextField.jobs[j].state = "queued"
    /\ PromiseSettled(editableTextField, editableTextField.jobs[j].after)
    /\ LET job == editableTextField.jobs[j]
           edited == Edited(editableTextField.stored, job.oldValue, job.newValue)
       IN editableTextField' =
            IF edited = <<>>
            THEN [editableTextField EXCEPT !.jobs[j].state = "settled", !.failed = TRUE]
            ELSE [editableTextField EXCEPT !.jobs[j].state = "open",
                                           !.jobs[j].text = edited]
    /\ UNCHANGED otherThanTextField

CommitResolved(j) ==
    /\ editableTextField.jobs[j].state = "open"
    /\ editableTextField' = [editableTextField EXCEPT
            !.jobs[j].state = "settled",
            !.stored = editableTextField.jobs[j].text[1]]
    /\ UNCHANGED otherThanTextField

CommitRejected(j) ==
    /\ editableTextField.jobs[j].state = "open"
    /\ editableTextField' = [editableTextField EXCEPT
            !.jobs[j].state = "settled", !.failed = TRUE]
    /\ UNCHANGED otherThanTextField

\* Another peer changes the field.
RemoteEdit(value) ==
    /\ ~editableTextField.remote
    /\ value # editableTextField.stored
    /\ editableTextField' = [editableTextField EXCEPT !.stored = value, !.remote = TRUE]
    /\ UNCHANGED otherThanTextField

TextFieldInit ==
    /\ Constructed
    /\ feedN = 0
    /\ editableTextField \in {EditableTextFieldMounted(v) : v \in Texts}
    /\ userReadHandle = ensureUser
    /\ app = AppMounted
    /\ scrollTest = scrollTestLoaded
    /\ scrollValidation = scrollValidationIdle

TextFieldNext ==
    \/ Rerender
    \/ StartEdit
    \/ \E v \in Texts : HandleChange(v)
    \/ EndEdit
    \/ \E j \in 1..Len(editableTextField.jobs) : BeginTransaction(j)
    \/ \E j \in 1..Len(editableTextField.jobs) : CommitResolved(j)
    \/ \E j \in 1..Len(editableTextField.jobs) : CommitRejected(j)
    \/ \E v \in Texts : RemoteEdit(v)

SpecTextField == TextFieldInit /\ [][TextFieldNext]_vars

\* ---------------------------------------------------------- ensureUser
\* The handle ensureUser() returns, used by the listeners of Subscribers;
\* at most MaxTimeouts setTimeout callbacks are outstanding.
Subscribers == {"s1", "s2"}

otherThanUser == <<managerVars, editableTextField, app, scrollTest, scrollValidation>>

\* initUser() got its user (fetched or created): user = ...; notify()
InitUserResolved ==
    /\ userReadHandle.initUser = "pending"
    /\ userReadHandle' = [userReadHandle EXCEPT
            !.user = TRUE, !.initUser = "done",
            !.invoked = userReadHandle.listeners]
    /\ UNCHANGED otherThanUser

\* initUser() ended in its outer catch
InitUserRejected ==
    /\ userReadHandle.initUser = "pending"
    /\ userReadHandle' = [userReadHandle EXCEPT !.initUser = "failed", !.invoked = {}]
    /\ UNCHANGED otherThanUser

\* handle.subscribe(listener)
HandleSubscribe(listener) ==
    /\ Len(userReadHandle.timeouts) < MaxTimeouts
    /\ userReadHandle' = [userReadHandle EXCEPT
            !.listeners = @ \cup {listener},
            !.timeouts = IF userReadHandle.user THEN Append(@, listener) ELSE @,
            !.unsubscribed = @ \ {listener},
            !.invoked = {}]
    /\ UNCHANGED otherThanUser

\* the function subscribe(listener) returned
HandleUnsubscribe(listener) ==
    /\ listener \in userReadHandle.listeners
    /\ userReadHandle' = [userReadHandle EXCEPT
            !.listeners = @ \ {listener},
            !.unsubscribed = @ \cup {listener},
            !.invoked = {}]
    /\ UNCHANGED otherThanUser

\* the callback of setTimeout(() => listener(), 0)
TimeoutCallback ==
    /\ userReadHandle.timeouts # <<>>
    /\ userReadHandle' = [userReadHandle EXCEPT
            !.timeouts = Tail(@),
            !.invoked = {Head(userReadHandle.timeouts)}]
    /\ UNCHANGED otherThanUser

UserInit ==
    /\ Constructed
    /\ feedN = 0
    /\ Mounted

UserNext ==
    \/ InitUserResolved
    \/ InitUserRejected
    \/ \E l \in Subscribers : HandleSubscribe(l)
    \/ \E l \in Subscribers : HandleUnsubscribe(l)
    \/ TimeoutCallback

SpecUser == UserInit /\ [][UserNext]_vars

\* ------------------------------------------------------ App and RoomList
\* The rooms of the live query are 1..app.items, at most MaxRooms; room 0
\* stands for null.  The user acts on what the last render shows.
otherThanApp == <<managerVars, editableTextField, userReadHandle, scrollTest, scrollValidation>>

\* What App puts into mainContent for its state.
Screen(a) ==
    IF ~a.nodeReady \/ ~a.currentUser THEN "connecting"
    ELSE IF a.selectedRoom # 0 THEN "chat"
    ELSE IF a.rooms THEN "roomList"
    ELSE "loading"

\* The room the auto-select effect of RoomList picks: "General", or else the
\* first item; the rooms are numbered so that this is room 1.
roomToSelect == 1

\* initAnkurah() resolved: setNodeReady(true)
InitAnkurahResolved ==
    /\ ~app.nodeReady
    /\ app' = [app EXCEPT !.nodeReady = TRUE, !.dirty = TRUE, !.last = "other"]
    /\ UNCHANGED otherThanApp

\* the effect on [nodeReady]: setCurrentUser(ensureUser()) and the rooms
\* query is issued
InitializeEffect ==
    /\ app.nodeReady /\ ~app.dirty /\ ~app.initialized
    /\ app' = [app EXCEPT !.initialized = TRUE, !.currentUser = TRUE,
                          !.dirty = TRUE, !.last = "other"]
    /\ UNCHANGED otherThanApp

\* new RoomOps().query() resolved: setRooms(roomsQuery)
RoomsQueryResolved ==
    /\ app.initialized /\ ~app.rooms
    /\ app' = [app EXCEPT !.rooms = TRUE, !.dirty = TRUE, !.last = "other"]
    /\ UNCHANGED otherThanApp

\* App renders: RoomList is an element of the branch without selected room,
\* so it is mounted with fresh state when that branch is entered and
\* unmounted when it is left; each of its renders reads a new items array,
\* a dependency of its effect.
Render ==
    /\ app.dirty
    /\ app' = [app EXCEPT
            !.screen = Screen(app),
            !.dirty = FALSE,
            !.roomList = IF Screen(app) # "roomList" THEN <<>>
                         ELSE IF app.roomList = <<>>
                              THEN <<[selectedRoomId |-> 0, effect |-> TRUE]>>
                              ELSE <<[app.roomList[1] EXCEPT !.effect = TRUE]>>,
            !.last = "other"]
    /\ UNCHANGED otherThanApp

\* the auto-select effect of RoomList
AutoSelectEffect ==
    /\ ~app.dirty
    /\ app.roomList # <<>>
    /\ app.roomList[1].effect
    /\ app' = IF app.roomList[1].selectedRoomId = 0 /\ app.items > 0
              THEN [app EXCEPT
                      !.roomList = <<[selectedRoomId |-> roomToSelect, effect |-> FALSE]>>,
                      !.selectedRoom = roomToSelect,
                      !.dirty = TRUE,
                      !.last = "auto",
                      !.autoSelected = TRUE]
              ELSE [app EXCEPT !.roomList[1].effect = FALSE, !.last = "other"]
    /\ UNCHANGED otherThanApp

\* The user can press what the last render put on the screen.
Idle(a) == ~a.dirty

\* the user presses a room of the list: handleSelectRoom(room)
HandleSelectRoom(room) ==
    /\ Idle(app)
    /\ app.screen = "roomList"
    /\ room \in 1..app.items
    /\ app' = [app EXCEPT
            !.roomList = <<[selectedRoomId |-> room, effect |-> FALSE]>>,
            !.selectedRoom = room,
            !.dirty = TRUE,
            !.last = "press"]
    /\ UNCHANGED otherThanApp

\* the user creates a room in NewRoomInput: onRoomCreated(room)
HandleCreate ==
    /\ Idle(app)
    /\ app.screen = "roomList"
    /\ app.items < MaxRooms
    /\ app' = [app EXCEPT
            !.items = app.items + 1,
            !.roomList = <<[selectedRoomId |-> app.items + 1, effect |-> FALSE]>>,
            !.selectedRoom = app.items + 1,
            !.dirty = TRUE,
            !.last = "press"]
    /\ UNCHANGED otherThanApp

\* the user presses the back button of Chat: setSelectedRoom(null)
OnBack ==
    /\ Idle(app)
    /\ app.screen = "chat"
    /\ app' = [app EXCEPT !.selectedRoom = 0, !.dirty = TRUE, !.last = "back"]
    /\ UNCHANGED otherThanApp

\* the user shows or hides the test panel: setShowTestPanel(p => !p)
OnToggleTestPanel ==
    /\ Idle(app)
    /\ app.screen # "connecting"
    /\ app' = [app EXCEPT !.showTestPanel = ~@, !.dirty = TRUE, !.last = "other"]
    /\ UNCHANGED otherThanApp

\* the user has the test panel open a room: onNavigateToRoom(room)
OnNavigateToRoom(room) ==
    /\ Idle(app)
    /\ app.screen # "connecting"
    /\ app.showTestPanel
    /\ room \in 1..app.items
    /\ app' = [app EXCEPT !.selectedRoom = room, !.dirty = TRUE, !.last = "press"]
    /\ UNCHANGED otherThanApp

\* a room made elsewhere reaches the live query; a mounted RoomList observes
\* it and renders again
RoomArrives ==
    /\ app.rooms
    /\ app.items < MaxRooms
    /\ app' = [app EXCEPT
            !.items = app.items + 1,
            !.roomList = IF app.roomList = <<>> THEN <<>>
                         ELSE <<[app.roomList[1] EXCEPT !.effect = TRUE]>>,
            !.last = "other"]
    /\ UNCHANGED otherThanApp

AppInit ==
    /\ Constructed
    /\ feedN = 0
    /\ Mounted

AppNext ==
    \/ InitAnkurahResolved
    \/ InitializeEffect
    \/ RoomsQueryResolved
    \/ Render
    \/ AutoSelectEffect
    \/ \E room \in 1..MaxRooms : HandleSelectRoom(room)
    \/ HandleCreate
    \/ OnBack
    \/ OnToggleTestPanel
    \/ \E room \in 1..MaxRooms : OnNavigateToRoom(room)
    \/ RoomArrives

SpecApp == AppInit /\ [][AppNext]_vars

\* ------------------------------------------- the scroll validation harness
\* scrollTest.run() and runScrollValidation() are async functions: the
\* position pc names the await a call is suspended at, and one action runs
\* the code from one await to the next.  Time is counted in the sleeps of
\* the waiting loops; cfg.maxCycles is drawn from 1..MaxCycles.
otherThanScrollTest == <<managerVars, editableTextField, userReadHandle, app, scrollValidation>>

otherThanScrollValidation == <<managerVars, editableTextField, userReadHandle, app, scrollTest>>

\* What __CHAT_RENDER_HOOK__ may be handed (interface ChatRenderState):
\* the visible set is null, empty or has items; initialOk says mode Live,
\* hasMoreFollowing false and MSG_0099 among the items; first says MSG_0000
\* is among the items.
ChatRenderStates ==
    [set : {TRUE}, visibleSet : {"null", "empty"}, flatListRef : BOOLEAN,
     initialOk : {FALSE}, hasMorePreceding : {FALSE}, first : {FALSE}]
    \cup
    [set : {TRUE}, visibleSet : {"items"}, flatListRef : BOOLEAN,
     initialOk : BOOLEAN, hasMorePreceding : BOOLEAN, first : BOOLEAN]

\* The count of loop bodies entered, kept up to one past the largest limit.
Counted(n) == IF n > MaxCycles THEN n ELSE n + 1

\* return from inside try: the finally block clears isRunning
Returned(t, result, recorded) ==
    [t EXCEPT !.pc = "idle", !.isRunning = FALSE, !.returned = result,
              !.lastResult = IF recorded THEN result ELSE @]

\* Phase 4: the checks of the initial state, then the scroll up loop
VerifyInitialState(t) ==
    LET c == t.chatState
    IN IF ~c.flatListRef \/ c.visibleSet = "null" THEN Returned(t, "fail", FALSE)
       ELSE IF ~c.initialOk THEN Returned(t, "fail", FALSE)
       ELSE IF ~c.hasMorePreceding THEN Returned(t, "fail", FALSE)
       ELSE [t EXCEPT !.pc = "loop", !.cycleCount = 0, !.iterations = 0]

\* the loop waiting for the Chat component, entered at its condition
WaitForChat(t) ==
    IF t.chatState.set /\ t.chatState.visibleSet = "items" THEN VerifyInitialState(t)
    ELSE IF t.elapsed > MaxWaitTicks THEN Returned(t, "fail", FALSE)
    ELSE [t EXCEPT !.pc = "waitChat", !.elapsed = @ + 1]

\* scrollTest.setCurrentUserId
SetCurrentUserId(userId) ==
    /\ scrollTest.pc # "loop"
    /\ scrollTest' = [scrollTest EXCEPT !.currentUserId = userId]
    /\ UNCHANGED otherThanScrollTest

\* scrollTest.setNavigationCallback
SetNavigationCallback(callback) ==
    /\ scrollTest.pc # "loop"
    /\ scrollTest' = [scrollTest EXCEPT !.navigationCallback = callback]
    /\ UNCHANGED otherThanScrollTest

\* globalThis.__CHAT_RENDER_HOOK__, called by a render of Chat; no render
\* happens while the harness runs without awaiting.
ChatRenderHook(state) ==
    /\ scrollTest.pc # "loop"
    /\ scrollTest' = [scrollTest EXCEPT !.chatState = state]
    /\ UNCHANGED otherThanScrollTest

\* scrollTest.run(config) up to its first await
Run(maxCycles) ==
    /\ scrollTest.pc # "loop"
    /\ scrollTest' =
         IF scrollTest.isRunning THEN [scrollTest EXCEPT !.lastCall = "alreadyRunning"]
         ELSE IF ~scrollTest.currentUserId THEN [scrollTest EXCEPT !.lastCall = "noUserId"]
         ELSE IF ~scrollTest.navigationCallback THEN [scrollTest EXCEPT !.lastCall = "noCallback"]
         ELSE [scrollTest EXCEPT !.lastCall = "started", !.isRunning = TRUE,
                                 !.lastResult = "null", !.chatState = noChatState,
                                 !.returned = "none", !.maxCycles = maxCycles,
                                 !.cycleCount = 0, !.iterations = 0, !.elapsed = 0,
                                 !.pc = "creating"]
    /\ UNCHANGED otherThanScrollTest

\* the room and the messages are created; navigationCallback(room); the
\* loop waiting for the Chat component is entered
CreationResolved ==
    /\ scrollTest.pc = "creating"
    /\ scrollTest' = WaitForChat([scrollTest EXCEPT !.elapsed = 0])
    /\ UNCHANGED otherThanScrollTest

\* createOne rejects: the outer catch records the result
CreationRejected ==
    /\ scrollTest.pc = "creating"
    /\ scrollTest' = Returned(scrollTest, "fail", TRUE)
    /\ UNCHANGED otherThanScrollTest

\* sleep(100) of the waiting loop resolved
ChatAwaited ==
    /\ scrollTest.pc = "waitChat"
    /\ scrollTest' = WaitForChat(scrollTest)
    /\ UNCHANGED otherThanScrollTest

\* the head of the scroll up loop down to its first await: the loop
\* condition, then `if (!state?.visibleSet) continue`
ScrollUpLoop ==
    /\ scrollTest.pc = "loop"
    /\ scrollTest' =
         IF scrollTest.cycleCount < scrollTest.maxCycles
         THEN IF scrollTest.chatState.visibleSet = "null"
              THEN [scrollTest EXCEPT !.iterations = Counted(@)]
              ELSE [scrollTest EXCEPT !.iterations = Counted(@), !.pc = "measureBefore"]
         ELSE Returned(scrollTest, "fail", FALSE)
    /\ UNCHANGED otherThanScrollTest

\* measureVisibleMessages() resolved: scrollToOffset, sleep(stabilizationDelay)
MeasuredBefore ==
    /\ scrollTest.pc = "measureBefore"
    /\ scrollTest' = [scrollTest EXCEPT !.pc = "stabilize"]
    /\ UNCHANGED otherThanScrollTest

\* sleep(cfg.stabilizationDelay) resolved
Stabilized ==
    /\ scrollTest.pc = "stabilize"
    /\ scrollTest' = [scrollTest EXCEPT !.pc = "measureAfter"]
    /\ UNCHANGED otherThanScrollTest

\* the second measureVisibleMessages() resolved: `if (!currentVisSet)
\* continue`, the check for the top, cycleCount++
MeasuredAfter ==
    /\ scrollTest.pc = "measureAfter"
    /\ LET c == scrollTest.chatState
       IN scrollTest' =
            IF c.visibleSet = "null" THEN [scrollTest EXCEPT !.pc = "loop"]
            ELSE IF c.first /\ ~c.hasMorePreceding THEN Returned(scrollTest, "pass", TRUE)
            ELSE [scrollTest EXCEPT !.pc = "loop", !.cycleCount = @ + 1]
    /\ UNCHANGED otherThanScrollTest

\* -- runScrollValidation(ctx)
\* return, from the body or from the catch block
Resolved(v, result) == [v EXCEPT !.pc = "done", !.result = result]

\* Phase 4: final verification
FinalVerification(v) ==
    IF v.scrollCyclesDown = 0 THEN Resolved(v, "fail")
    ELSE IF v.scrollCyclesUp = 0 THEN Resolved(v, "fail")
    ELSE Resolved(v, "pass")

\* the head of the scroll up loop down to measureVisibleMessages()
ScrollUp(v) ==
    IF v.cycleCount < v.maxCycles
    THEN [v EXCEPT !.pc = "upMeasureBefore", !.iterations = Counted(@)]
    ELSE FinalVerification(v)

\* the head of the scroll down loop down to measureVisibleMessages()
ScrollDown(v) ==
    IF v.cycleCount < v.maxCycles /\ ~v.reachedBottom
    THEN [v EXCEPT !.pc = "measureBefore", !.iterations = Counted(@)]
    ELSE ScrollUp([v EXCEPT !.cycleCount = 0, !.iterations = 0])

\* where the code goes on after the await it is suspended at
Continue(v) ==
    CASE v.pc = "wait224" -> [v EXCEPT !.pc = "sleep500"]
      [] v.pc = "wait233" -> ScrollDown([v EXCEPT !.currentOffset = 0, !.cycleCount = 0,
                                                  !.iterations = 0, !.reachedBottom = FALSE])
      [] v.pc = "wait266" -> [v EXCEPT !.pc = "measureAfter"]
      [] v.pc = "wait338" -> [v EXCEPT !.pc = "upMeasureAfter"]

\* waitForIdle(manager) at its loop condition; the two waits for the render
\* cycle after the loop are part of the step
waitForIdle(v) ==
    IF ~v.isLoading THEN Continue(v)
    ELSE IF v.elapsed > MaxWaitTicks THEN Resolved(v, "fail")
    ELSE [v EXCEPT !.elapsed = @ + 1]

\* a call of waitForIdle: start = Date.now()
Await(v, at) == waitForIdle([v EXCEPT !.pc = at, !.elapsed = 0])

\* runScrollValidation(ctx) up to its first await
RunScrollValidation(maxCycles, flatList) ==
    /\ scrollValidation.pc \in {"idle", "done"}
    /\ LET v == [scrollValidation EXCEPT !.maxCycles = maxCycles, !.result = "none",
                     !.cycleCount = 0, !.iterations = 0, !.currentOffset = 0,
                     !.scrollCyclesDown = 0, !.scrollCyclesUp = 0,
                     !.reachedBottom = FALSE, !.beforeVisible = 0]
       IN scrollValidation' = IF ~flatList THEN Resolved(v, "fail") ELSE Await(v, "wait224")
    /\ UNCHANGED otherThanScrollValidation

\* the manager starts or finishes loading
ManagerLoading(loading) ==
    /\ scrollValidation.pc \notin {"idle", "done"}
    /\ scrollValidation.isLoading # loading
    /\ scrollValidation' = [scrollValidation EXCEPT !.isLoading = loading]
    /\ UNCHANGED otherThanScrollValidation

\* sleep(16) of waitForIdle resolved
IdlePolled ==
    /\ scrollValidation.pc \in {"wait224", "wait233", "wait266", "wait338"}
    /\ scrollValidation' = waitForIdle(scrollValidation)
    /\ UNCHANGED otherThanScrollValidation

\* one of the sleeps of runScrollValidation resolved
Slept ==
    /\ scrollValidation.pc \in {"sleep500", "sleep300", "warning", "stabilize", "upStabilize"}
    /\ LET v == scrollValidation
       IN scrollValidation' =
            CASE v.pc = "sleep500" -> [v EXCEPT !.pc = "sleep300"]
              [] v.pc = "sleep300" -> Await(v, "wait233")
              [] v.pc = "warning" -> ScrollDown(v)
              [] v.pc = "stabilize" -> Await(v, "wait266")
              [] v.pc = "upStabilize" -> Await(v, "wait338")
    /\ UNCHANGED otherThanScrollValidation

\* measureVisibleMessages() before a scroll resolved with `visible`
\* messages: the scroll down loop warns and continues when there is none
MeasuredBeforeScroll(visible) ==
    /\ scrollValidation.pc \in {"measureBefore", "upMeasureBefore"}
    /\ LET v == [scrollValidation EXCEPT !.beforeVisible = visible]
       IN scrollValidation' =
            IF v.pc = "measureBefore"
            THEN IF visible = 0 THEN [v EXCEPT !.pc = "warning"]
                 ELSE [v EXCEPT !.pc = "stabilize", !.currentOffset = @ + 1]
            ELSE IF v.currentOffset - 1 <= 0 THEN FinalVerification(v)
                 ELSE [v EXCEPT !.pc = "upStabilize", !.currentOffset = @ - 1]
    /\ UNCHANGED otherThanScrollValidation

\* measureVisibleMessages() after a scroll resolved: validateScrollDelta
\* answers `valid`; in the scroll down loop the manager is at the bottom
\* or not
MeasuredAfterScroll(visible, valid, bottom) ==
    /\ scrollValidation.pc \in {"measureAfter", "upMeasureAfter"}
    /\ LET v == scrollValidation
       IN scrollValidation' =
            IF v.beforeVisible > 0 /\ visible > 0 /\ ~valid THEN Resolved(v, "fail")
            ELSE IF v.pc = "measureAfter"
            THEN ScrollDown([v EXCEPT !.scrollCyclesDown = @ + 1, !.cycleCount = @ + 1,
                                      !.reachedBottom = bottom])
            ELSE ScrollUp([v EXCEPT !.scrollCyclesUp = @ + 1, !.cycleCount = @ + 1])
    /\ UNCHANGED otherThanScrollValidation

HarnessInit ==
    /\ Constructed
    /\ feedN = 0
    /\ Mounted

\* the code after an await of run() is run
RunStep ==
    \/ CreationResolved
    \/ ChatAwaited
    \/ ScrollUpLoop
    \/ MeasuredBefore
    \/ Stabilized
    \/ MeasuredAfter

\* the code after an await of runScrollValidation() is run
ValidationStep ==
    \/ IdlePolled
    \/ Slept
    \/ \E n \in {0, 1} : MeasuredBeforeScroll(n)
    \/ \E n \in {0, 1}, valid, bottom \in BOOLEAN : MeasuredAfterScroll(n, valid, bottom)

\* One of the two entry points is exercised in a behaviour.
RunExercised == scrollValidation = scrollValidationIdle

ValidationExercised == scrollTest = scrollTestLoaded

HarnessNext ==
    \/ RunExercised /\ \E b \in BOOLEAN : SetCurrentUserId(b)
    \/ RunExercised /\ \E b \in BOOLEAN : SetNavigationCallback(b)
    \/ RunExercised /\ \E c \in ChatRenderStates : ChatRenderHook(c)
    \/ RunExercised /\ \E m \in 1..MaxCycles : Run(m)
    \/ RunExercised /\ CreationRejected
    \/ RunExercised /\ CreationResolved
    \/ RunExercised /\ ChatAwaited
    \/ RunExercised /\ ScrollUpLoop
    \/ RunExercised /\ MeasuredBefore
    \/ RunExercised /\ Stabilized
    \/ RunExercised /\ MeasuredAfter
    \/ ValidationExercised /\ \E m \in 1..MaxCycles, flatList \in BOOLEAN : RunScrollValidation(m, flatList)
    \/ ValidationExercised /\ \E b \in BOOLEAN : ManagerLoading(b)
    \/ ValidationExercised /\ IdlePolled
    \/ ValidationExercised /\ Slept
    \/ ValidationExercised /\ \E n \in {0, 1} : MeasuredBeforeScroll(n)
    \/ ValidationExercised /\ \E n \in {0, 1}, valid, bottom \in BOOLEAN : MeasuredAfterScroll(n, valid, bottom)

\* Timers and promise continuations are run by the event loop: a
\* suspended call whose await has resolved goes on.
SpecHarness ==
    HarnessInit /\ [][HarnessNext]_vars
    /\ WF_scrollTest(RunStep) /\ WF_scrollValidation(ValidationStep)

\* =================================================================
\* Properties
\* =================================================================
Ordered(w) == \A i \in 1..(Len(w) - 1) : w[i] < w[i + 1]

\* the calls of pagination cycles: loadMore and the Live re-issue it makes
CycleCalls == {i \in 1..Len(inflight) :
                 \/ inflight[i].kind = "loadMore"
                 \/ (inflight[i].kind = "setLiveMode" /\ inflight[i].origin = "loadMore")}

\* C1: in every reachable state the window exposed by the snapshot is
\* strictly ordered by timestamp, oldest first (hence free of duplicates).
C1_WindowOrdered ==
    _snapshot # <<>> => Ordered(_snapshot[1].messages)

\* C2: at most one pagination cycle has an unresolved updateSelection call.
C2_OneCycleInFlight ==
    Cardinality(CycleCalls) <= 1

\* C3: when a continuation query is rejected (no other call being in flight)
\* and the provider's items are the ones loadMore started from, the exposed
\* window is the window that was exposed before loadMore was called.
C3_FailedLoadKeepsWindow ==
    [][\A i \in 1..Len(inflight) :
          (/\ ev'.kind = "loadMoreRejected"
           /\ inflight[i].kind = "loadMore"
           /\ Len(inflight) = 1
           /\ inflight' = <<>>
           /\ _messages' = inflight[i].pre[1].messages)
          => _snapshot'[1].messages = inflight[i].pre[1].window]_vars

\* C4: after a rejected continuation query loading is false and the error is
\* populated in the snapshot (or at least in the manager's error field).
SnapshotError ==
    IF _snapshot # <<>> /\ "error" \in DOMAIN _snapshot[1]
    THEN _snapshot[1].error ELSE <<>>

C4_FailureReported ==
    ev.kind = "loadMoreRejected"
        => (_loading = "false" /\ (SnapshotError # <<>> \/ _error # <<>>))

\* C5: the user-initiated scroll event that follows a rejected continuation
\* query and crosses the threshold in the same direction issues the
\* continuation query again.
C5_RetryAfterFailure ==
    [][(/\ ev.kind = "loadMoreRejected"
        /\ userScrolling
        /\ ev'.kind = "onScroll"
        /\ IF ev.dir = "backward"
           THEN scrollOffset' < scrollOffset /\ _metrics'.topGap < _metrics'.minBuffer
           ELSE scrollOffset' > scrollOffset /\ _metrics'.bottomGap < _metrics'.minBuffer)
       => Len(inflight') = Len(inflight) + 1]_vars

C7_LiveOnlyAtNewestBoundary ==
    ev.enteredLive =>
        \/ ev.kind = "jumpToLive"
        \/ (ev.kind = "loadMoreResolved" /\ ev.dir = "forward" /\ ev.fetched < ev.limit)

C7_Witness ==
    ev.enteredLive /\ ev.kind = "loadMoreResolved" /\ _mode = "live"

\* C8: in Backward mode with the backward page completed and nothing in
\* flight, a user-initiated downward scroll that brings the bottom gap under
\* the threshold switches the mode to Forward and issues a forward
\* continuation query.
C8_BackwardToForward ==
    [][(/\ _mode = "backward"
        /\ _loading = "false"
        /\ inflight = <<>>
        /\ messageQuery
        /\ selection.op = "le"
        /\ _messages = Items(selection, feedN)
        /\ userScrolling
        /\ ev'.kind = "onScroll"
        /\ scrollOffset' > scrollOffset
        /\ _metrics'.bottomGap < _metrics'.minBuffer)
       => (/\ _mode' = "forward"
           /\ Len(inflight') = 1
           /\ inflight'[1].kind = "loadMore"
           /\ inflight'[1].dir = "forward")]_vars

\* C9: a step makes a new snapshot object only if its mode, loading or
\* shouldAutoScroll differs from the previous snapshot's or it holds another
\* array object; in particular getSnapshot() on an existing snapshot makes
\* none.
C9_SnapshotStable ==
    [][(_snapshot # <<>> /\ ev'.created > 0) =>
          \/ _snapshot'[1].mode # _snapshot[1].mode
          \/ _snapshot'[1].loading # _snapshot[1].loading
          \/ _snapshot'[1].shouldAutoScroll # _snapshot[1].shouldAutoScroll
          \/ ~ev'.sameMessages]_vars

C9_Witness ==
    ev.created > 0 /\ ev.sameMessages /\ ev.kind = "onScroll"

\* C10: a step invokes the subscribed listeners at most once, and not at all
\* if it changed no field of the snapshot (no new snapshot object was made).
C10_NotifiedOncePerChange ==
    listeners # {} => (ev.notified <= 1 /\ (ev.created = 0 => ev.notified = 0))

\* the loadMore calls in flight in a direction
LoadsInFlight(direction) ==
    {i \in 1..Len(inflight) : inflight[i].kind = "loadMore" /\ inflight[i].dir = direction}

\* C11: the scroll event the list reports for a scrollToEnd() of the manager
\* issues no provider call.
C11_ProgrammaticScrollStartsNothing ==
    [][ev'.kind = "scrollToEnd" => (calls' = calls /\ Len(inflight') <= Len(inflight))]_vars

C14_QuietAfterDestroy ==
    destroyed => (~pollInterval /\ ev.kind # "refresh" /\ listeners = {})

\* C15: a refresh that finds the id sequence of _messages changes no array,
\* no snapshot, neither mode nor loading and notifies nobody; a refresh that
\* finds another sequence installs it, in display order, and notifies once.
C15_RefreshDiffs ==
    [][ev'.kind = "refresh" =>
          IF Items(selection, feedN) = _messages
          THEN /\ _messages' = _messages
               /\ _displayMessages' = _displayMessages
               /\ sameArray' = sameArray
               /\ _snapshot' = _snapshot
               /\ ev'.created = 0
               /\ _mode' = _mode
               /\ _loading' = _loading
               /\ ev'.notified = 0
          ELSE /\ _messages' = Items(selection, feedN)
               /\ _displayMessages' = IF _mode = "forward" THEN _messages'
                                                           ELSE Reverse(_messages')
               /\ _snapshot'[1].messages = _displayMessages'
               /\ ev'.notified = 1]_vars

C15_Witness ==
    /\ ev.kind = "refresh" /\ ev.notified = 0 /\ ev.created = 0
    /\ Len(_messages) > 0 /\ listeners # {} /\ _snapshot # <<>>

\* C16: over a scroll event and over the completion of the page it asked
\* for, a row visible before and after the step has moved on the screen by
\* the amount scrolled, whether or not the window was replaced.
C16_RowsMoveByScroll ==
    [][ev'.kind \in {"onScroll", "loadMoreResolved"} =>
          \A m \in Visible(Rendered(_snapshot), scrollOffset, viewportHeight)
                    \cap Visible(Rendered(_snapshot'), scrollOffset', viewportHeight') :
             ScreenY(Rendered(_snapshot'), m, scrollOffset')
                - ScreenY(Rendered(_snapshot), m, scrollOffset)
             = scrollOffset - scrollOffset']_vars

\* C17: the page size is the least number of rows, at least minPageSize,
\* that covers querySize viewports, hence at least two viewports.
C17_LimitCoversViewports ==
    inflight # <<>> =>
        /\ inflight[1].query.limit = currentLimit
        /\ currentLimit >= minPageSize
        /\ currentLimit * estimatedRowHeight >= querySize * viewportHeight
        /\ currentLimit > minPageSize
              => (currentLimit - 1) * estimatedRowHeight < querySize * viewportHeight
        /\ currentLimit * estimatedRowHeight >= 2 * viewportHeight

C17_Witness ==
    inflight # <<>> /\ viewportHeight >= 1000 /\ currentLimit > minPageSize

\* C18: after onScroll, onLayout and onContentSizeChange the metrics are the
\* formulas applied to the geometry the manager holds.
C18_MetricsFollowGeometry ==
    [][(\/ ev'.kind = "onScroll"
        \/ \E h \in ViewportHeights : OnLayout(h)
        \/ \E h \in ContentHeights \cup {0} : OnContentSizeChange(h))
       => /\ _metrics'.topGap = scrollOffset'
          /\ _metrics'.bottomGap = contentHeight' - scrollOffset' - viewportHeight'
          /\ _metrics'.minBuffer =
                (viewportHeight' * minBufferRatioNum) \div minBufferRatioDen]_vars

\* C19: in Live mode with no provider call outstanding the handle is bound
\* to the canonical Live query.
C19_LiveHandleIsLiveQuery ==
    (_mode = "live" /\ inflight = <<>> /\ messageQuery)
        => (selection.op = "all" /\ selection.order = "DESC")

\* C20: the scroll event that follows the first scroll event of a drag, when
\* it moves up with the top gap under the threshold, nothing loading, the
\* backward boundary not reached and the cursor not the last one issued,
\* issues a backward continuation query; and the same downwards for a
\* forward continuation query.
C20_EveryDragScrollLoads ==
    [][(/\ ev.kind = "onScroll" /\ ev.drag
        /\ ev'.kind = "onScroll"
        /\ messageQuery
        /\ Len(_displayMessages) > 0
        /\ _loading = "false"
        /\ inflight = <<>>)
       => /\ (/\ scrollOffset' < scrollOffset
              /\ _metrics'.topGap < _metrics'.minBuffer
              /\ ~atEarliest(Cur)
              /\ lastContinuationTimestamp # <<_displayMessages[1]>>)
             => (Len(inflight') = 1 /\ inflight'[1].dir = "backward")
          /\ (/\ scrollOffset' > scrollOffset
              /\ _metrics'.bottomGap < _metrics'.minBuffer
              /\ ~atLatest(Cur)
              /\ lastContinuationTimestamp # <<_displayMessages[Len(_displayMessages)]>>)
             => (Len(inflight') = 1 /\ inflight'[1].dir = "forward")]_vars

\* C22: right after the initial load of a feed that holds more items than
\* the limit the mode is live, atLatest holds, atEarliest does not, and the
\* window contains the newest item of the feed.
C22_InitialLoadIsLive ==
    (ev.kind = "queryResolved" /\ feedN > currentLimit) =>
        /\ _mode = "live"
        /\ atLatest(Cur)
        /\ ~atEarliest(Cur)
        /\ \E i \in 1..Len(_displayMessages) : _displayMessages[i] = feedN

C22_Witness ==
    /\ ev.kind = "queryResolved"
    /\ feedN > currentLimit
    /\ Len(_displayMessages) = currentLimit

\* C23: when the only call in flight is a continuation query and it
\* resolves, every item that was inside the viewport when loadMore issued it
\* is in the window the list renders afterwards.
C23_VisibleItemsKept ==
    [][(/\ Len(inflight) = 1
        /\ inflight[1].kind = "loadMore"
        /\ ev'.kind = "loadMoreResolved")
       => \A m \in inflight[1].pre[1].visible :
             \E i \in 1..Len(Rendered(_snapshot')) : Rendered(_snapshot')[i] = m]_vars

\* The cursor of the last continuation query issued: loadMore sets the mode
\* to the direction of the query it issues, and only setLiveMode, which
\* clears lastContinuationTimestamp, sets another mode.
LastIssuedCursor ==
    IF lastContinuationTimestamp = <<>> THEN <<>>
    ELSE <<[dir |-> _mode, ts |-> lastContinuationTimestamp[1]]>>

\* C24: a scroll event that calls loadMore with a cursor whose direction or
\* boundary timestamp differs from the last cursor issued issues a
\* continuation query in that direction.
C24_OnlyIdenticalCursorSuppressed ==
    [][(/\ ev'.kind = "onScroll"
        /\ userScrolling
        /\ messageQuery
        /\ Len(_messages) > 0
        /\ inflight = <<>>
        /\ _loading = "false")
       => /\ (/\ scrollOffset' < scrollOffset
              /\ _metrics'.topGap < _metrics'.minBuffer
              /\ ~atEarliest(Cur)
              /\ LastIssuedCursor # <<[dir |-> "backward", ts |-> _messages[1]]>>)
             => (Len(inflight') = 1 /\ inflight'[1].dir = "backward")
          /\ (/\ scrollOffset' > scrollOffset
              /\ _metrics'.bottomGap < _metrics'.minBuffer
              /\ ~atLatest(Cur)
              /\ LastIssuedCursor # <<[dir |-> "forward", ts |-> _messages[Len(_messages)]]>>)
             => (Len(inflight') = 1 /\ inflight'[1].dir = "forward")]_vars

\* The updateSelection calls the manager has issued and not seen settled.
UpdateSelectionCalls ==
    {i \in 1..Len(inflight) : inflight[i].kind \in {"loadMore", "setLiveMode"}}

\* C25: loading is "false" exactly when no continuation query and no live
\* re-issue is in flight, and otherwise it is the direction of every
\* continuation query in flight.
C25_LoadingWhileInFlight ==
    /\ (_loading = "false") <=> (UpdateSelectionCalls = {})
    /\ \A i \in UpdateSelectionCalls :
          inflight[i].kind = "loadMore" => _loading = inflight[i].dir

\* C26: when the setLiveMode call of jumpToLive() resolves, the mode is
\* live, loading is false, lastContinuationTimestamp is null and the window
\* is the page of the live query.
C26_JumpToLiveLands ==
    ev.kind = "jumpToLiveResolved" =>
        /\ _mode = "live"
        /\ _loading = "false"
        /\ lastContinuationTimestamp = <<>>
        /\ selection = LiveSelection(currentLimit)
        /\ _messages = Items(selection, feedN)

\* The last step was a scroll event of a drag that moved the list up to its
\* top.
UserScrolledUp ==
    ev.kind = "onScroll" /\ ev.drag /\ scrollOffset = 0

\* The window holds the oldest item of the feed, atEarliest is reported and
\* no backward continuation query is in flight.
AtTop ==
    /\ messageQuery
    /\ \E i \in 1..Len(_displayMessages) : _displayMessages[i] = 1
    /\ atEarliest(Cur)
    /\ LoadsInFlight("backward") = {}

\* C21: if the user scrolls up again and again and the provider answers
\* every query, then from some point on the window holds the oldest item,
\* atEarliest is reported and no backward continuation query is in flight.
C21_ScrollingUpReachesTop ==
    ([]<>UserScrolledUp) => <>[]AtTop

OpenTransactions ==
    {j \in 1..Len(editableTextField.jobs) : editableTextField.jobs[j].state = "open"}

QueuedEdits ==
    {j \in 1..Len(editableTextField.jobs) : editableTextField.jobs[j].state = "queued"}

\* C27: at most one transaction of the field is open; an edit has begun only
\* if all edits of earlier change events are settled; when none is open and
\* edits are queued, one of them can begin, whether or not an earlier commit
\* failed; and with no failure and no remote edit, once every edit is
\* settled the field holds the last value typed.
C27_SerialEdits ==
    /\ Cardinality(OpenTransactions) <= 1
    /\ \A i, j \in 1..Len(editableTextField.jobs) :
          (i < j /\ editableTextField.jobs[j].state # "queued")
              => editableTextField.jobs[i].state = "settled"
    /\ (OpenTransactions = {} /\ QueuedEdits # {}) =>
          \E j \in QueuedEdits :
              PromiseSettled(editableTextField, editableTextField.jobs[j].after)
    /\ (/\ OpenTransactions = {} /\ QueuedEdits = {}
        /\ ~editableTextField.failed /\ ~editableTextField.remote
        /\ editableTextField.typed # <<>>)
          => editableTextField.stored = editableTextField.typed[1]

\* C28: no step invokes a listener whose unsubscribe function has been
\* called since it last subscribed.
C28_QuietAfterUnsubscribe ==
    userReadHandle.invoked \cap userReadHandle.unsubscribed = {}

\* C29: once the first automatic selection has happened, a room becomes the
\* selected room only by a press of the user; in particular, after the back
\* button the room list stays until the user selects a room.
C29_SelectionOnlyByUser ==
    [][(/\ app.autoSelected
        /\ app'.selectedRoom # 0
        /\ app'.selectedRoom # app.selectedRoom)
       => app'.last = "press"]_vars

\* C30: the harness always terminates: no scroll loop of run() or of
\* runScrollValidation() enters its body more than maxCycles times, a
\* started run() clears isRunning again, and a started
\* runScrollValidation() resolves with a result.
LoopsBounded ==
    /\ scrollTest.iterations <= scrollTest.maxCycles
    /\ scrollValidation.iterations <= scrollValidation.maxCycles

C30_HarnessTerminates ==
    /\ []LoopsBounded
    /\ scrollTest.isRunning ~> ~scrollTest.isRunning
    /\ (scrollValidation.pc \notin {"idle", "done"}) ~> (scrollValidation.pc = "done")

====
